---- MODULE Spec2Model ----
(***************************************************************************)
(* Model of the state abstraction (src/ode/types.rs: OdeType, PNorm,       *)
(* OdeTypeIterator and the Vec / scalar / tuple implementations) and of    *)
(* the option model (src/ode/options.rs: OdeOption, OdeOptionMap and the   *)
(* From<OdeOptionMap> conversion of the option set Demo).                  *)
(*                                                                         *)
(* Numeric domain.  Components are f64 in the source.  The model uses      *)
(* integers of small magnitude, on which f64 addition, abs, comparison     *)
(* and powi with a non-negative exponent are exact; NaN and infinities     *)
(* are outside the modelled domain.  usize is modelled at 64 bits as a     *)
(* record of limbs so that the cast `p as i32` keeps its width.            *)
(*                                                                         *)
(* Indices are 0-based as in the source; data[i + 1] is component i.       *)
(***************************************************************************)
EXTENDS Integers, Sequences, FiniteSets, TLC

VARIABLES kind, data, res, nmut, iters, ops, conv

vars == <<kind, data, res, nmut, iters, ops, conv>>

(* ----------------------------- bounds ---------------------------------- *)
\* initial states of up to MaxLen components are enumerated in full
MaxLen == 3
\* indices passed to get / get_mut / insert range over 0..MaxIdx
MaxIdx == 9
\* low limbs of the exponents passed to PNorm::P range over 0..MaxP
MaxP == 3
\* number of mutating calls (insert, get_mut write, set_zero) in one run
MaxMut == 2
\* number of entries in an OdeOptionMap
MaxEntries == 2

\* values a caller stores into a state
Vals == {-1, 0, 4}

\* component values of the enumerated initial states
Items == {-3, -1, 0, 3, 4}

\* component patterns of the longer initial states; a state of n components
\* repeats a pattern cyclically
Samples == {<<-3, 4, -1>>, <<0, -1, 3, 4, -3>>}

Cycle(base, n) == [i \in 1..n |-> base[((i - 1) % Len(base)) + 1]]

(* --------------------------- usize and i32 ----------------------------- *)
\* the usize  hi * 2^32 + b31 * 2^31 + lo,  0 <= lo < 2^31
USize(hi, b31, lo) == [hi |-> hi, b31 |-> b31, lo |-> lo]

IsZeroUSize(p) == p.hi = 0 /\ p.b31 = 0 /\ p.lo = 0

\* `p as i32`: the low 32 bits of p read as a two's complement number
AsI32(p) == IF p.b31 = 1 THEN (p.lo - 2147483647) - 1 ELSE p.lo

(* ------------------------------ PNorm ---------------------------------- *)
NormP(p) == [tag |-> "P", p |-> p]
NormInfPos == [tag |-> "InfPos", p |-> USize(0, 0, 0)]
NormInfNeg == [tag |-> "InfNeg", p |-> USize(0, 0, 0)]
NoNorm == [tag |-> "none", p |-> USize(0, 0, 0)]

\* exponents a caller passes: 0..MaxP and 2^32 + (0..MaxP)
Exponents == {USize(h, 0, l) : h \in 0..1, l \in 0..MaxP}

PNorm == {NormP(p) : p \in Exponents} \cup {NormInfPos, NormInfNeg}

(* ------------------------- Item arithmetic ----------------------------- *)
Zero == 0

Abs(x) == IF x < 0 THEN -x ELSE x

RECURSIVE Powi(_, _)
\* f64::powi for an exponent n >= 0 (x^0 = 1, also for x = 0)
Powi(x, n) == IF n <= 0 THEN 1 ELSE x * Powi(x, n - 1)

(* ------------------- results of a fallible operation ------------------- *)
Ok(v) == [out |-> "ok", val |-> v]
Panic == [out |-> "panic", val |-> 0]

OkData(d) == [out |-> "ok", data |-> d]
PanicData(d) == [out |-> "panic", data |-> d]

(* ------------------------ impl OdeType for Vec<T> ---------------------- *)
VecDof(d) == Len(d)

\* self[index]: the slice index panics when index >= len
VecGet(d, index) == IF index < Len(d) THEN Ok(d[index + 1]) ELSE Panic

\* &mut self[index]; val is the position the reference points at
VecGetMut(d, index) == IF index < Len(d) THEN Ok(index + 1) ELSE Panic

\* Vec::insert(index, item) in place of self[index] = item: shifts and grows
VecInsertShift(d, index, item) ==
    IF index <= Len(d)
    THEN OkData(SubSeq(d, 1, index) \o <<item>> \o SubSeq(d, index + 1, Len(d)))
    ELSE PanicData(d)

VecInsert(d, index, item) ==
    IF index < Len(d) THEN OkData([d EXCEPT ![index + 1] = item])
    ELSE PanicData(d)

(* ------------------------ impl_ode_ty!(f64) ---------------------------- *)
ScalarDof(d) == 1

\* *self: the index is not looked at
ScalarGet(d, index) == Ok(d[1])

ScalarGetMut(d, index) == Ok(1)

ScalarInsert(d, index, item) == OkData([d EXCEPT ![1] = item])

(* ------------------------ impl_ode_tuple! ------------------------------ *)
\* the arities the macro is invoked with
TupleArities == 2..9

\* $dof of the invocation for a tuple with Len(d) fields
TupleDof(d) == Len(d)

\* $idx list of the invocation: 0, 1, ..., arity - 1
TupleIdx(d) == 0..(Len(d) - 1)

\* a catch-all arm that wraps the index around instead of panicking
TupleGetWrap(d, index) == Ok(d[(index % Len(d)) + 1])

TupleGet(d, index) == IF index \in TupleIdx(d) THEN Ok(d[index + 1]) ELSE Panic

TupleGetMut(d, index) == IF index \in TupleIdx(d) THEN Ok(index + 1) ELSE Panic

TupleInsert(d, index, item) ==
    IF index \in TupleIdx(d) THEN OkData([d EXCEPT ![index + 1] = item])
    ELSE PanicData(d)

(* ------------------------ trait dispatch ------------------------------- *)
Dof(k, d) ==
    CASE k = "Vec" -> VecDof(d)
      [] k = "Scalar" -> ScalarDof(d)
      [] k = "Tuple" -> TupleDof(d)

Get(k, d, index) ==
    CASE k = "Vec" -> VecGet(d, index)
      [] k = "Scalar" -> ScalarGet(d, index)
      [] k = "Tuple" -> TupleGet(d, index)

GetMut(k, d, index) ==
    CASE k = "Vec" -> VecGetMut(d, index)
      [] k = "Scalar" -> ScalarGetMut(d, index)
      [] k = "Tuple" -> TupleGetMut(d, index)

Insert(k, d, index, item) ==
    CASE k = "Vec" -> VecInsert(d, index, item)
      [] k = "Scalar" -> ScalarInsert(d, index, item)
      [] k = "Tuple" -> TupleInsert(d, index, item)

RECURSIVE SetZeroFrom(_, _, _)
\* the loop of set_zero from i on: insert(i, zero) for i in i..dof-1
SetZeroFrom(k, d, i) ==
    IF i < Dof(k, d)
    THEN LET r == Insert(k, d, i, Zero)
         IN  IF r.out = "panic" THEN r ELSE SetZeroFrom(k, r.data, i + 1)
    ELSE OkData(d)

SetZero(k, d) == SetZeroFrom(k, d, 0)

(* ------------------------ OdeTypeIterator ------------------------------ *)
\* next() of an iterator at `index` over the state (k, d):
\* out "some" with the item and the advanced index, "none", or "panic"
\* next() with the bound test written index <= dof
IterNextAtOffByOne(k, d, index) ==
    IF index <= Dof(k, d)
    THEN LET g == Get(k, d, index)
         IN  IF g.out = "panic"
             THEN [out |-> "panic", val |-> 0, index |-> index]
             ELSE [out |-> "some", val |-> g.val, index |-> index + 1]
    ELSE [out |-> "none", val |-> 0, index |-> index]

IterNextAt(k, d, index) ==
    IF index < Dof(k, d)
    THEN LET g == Get(k, d, index)
         IN  IF g.out = "panic"
             THEN [out |-> "panic", val |-> 0, index |-> index]
             ELSE [out |-> "some", val |-> g.val, index |-> index + 1]
    ELSE [out |-> "none", val |-> 0, index |-> index]

(* ------------------------ pnorm ---------------------------------------- *)
\* the InfPos closure without the call of abs()
InfPosStepNoAbs(norm, item) == IF item > norm THEN item ELSE norm

InfPosStep(norm, item) == LET abs == Abs(item) IN IF abs > norm THEN abs ELSE norm

InfNegStep(norm, item) == LET abs == Abs(item) IN IF abs < norm THEN abs ELSE norm

PStep(norm, item, p) == norm + Powi(Abs(item), AsI32(p))

NormStep(n, norm, item) ==
    CASE n.tag = "InfPos" -> InfPosStep(norm, item)
      [] n.tag = "InfNeg" -> InfNegStep(norm, item)
      [] n.tag = "P" -> PStep(norm, item, n.p)

RECURSIVE Fold(_, _, _, _, _)
\* Iterator::fold over self.ode_iter(), the iterator being at `index`
Fold(k, d, index, norm, n) ==
    LET nx == IterNextAt(k, d, index)
    IN  CASE nx.out = "some" -> Fold(k, d, nx.index, NormStep(n, norm, nx.val), n)
          [] nx.out = "none" -> Ok(norm)
          [] nx.out = "panic" -> Panic

Pnorm(k, d, n) == Fold(k, d, 0, Zero, n)

(* ------------------------ option model --------------------------------- *)
\* the variants of OdeOption generated by options!
OptionKinds ==
    {"Norm", "Reltol", "Abstol", "Minstep", "Maxstep", "Initstep",
     "OutputPoints", "Retries"}

\* $id::option_name(): the canonical name of a variant
OptionName(k) == IF k = "OutputPoints" THEN "Points" ELSE k

OptionNames == {OptionName(k) : k \in OptionKinds}

\* one payload per variant, written as the source writes it
Payload(k) ==
    CASE k = "Reltol" -> "1e-5"
      [] k = "Abstol" -> "1e-8"
      [] k = "OutputPoints" -> "All"
      [] k = "Norm" -> "2.0"
      [] OTHER -> "0"

OdeOption == {[kind |-> k, val |-> Payload(k)] : k \in OptionKinds}

\* OdeOptionMap = HashMap<&'static str, OdeOption>
EmptyMap == [n \in {} |-> [kind |-> "Norm", val |-> "2.0"]]

MapPut(m, name, opt) ==
    [n \in (DOMAIN m) \cup {name} |-> IF n = name THEN opt ELSE m[n]]

MapDel(m, name) == [n \in (DOMAIN m) \ {name} |-> m[n]]

\* From<OdeOptionMap> for Demo: the body is unimplemented!()
FromOdeOptionMap(m) == "panic"

(* ------------------------ state machine -------------------------------- *)
IterIds == {"it1", "it2"}

NewIter == [live |-> FALSE, index |-> 0, yielded |-> <<>>, last |-> "new"]

NoRes ==
    [op |-> "none", idx |-> 0, item |-> 0, norm |-> NoNorm, out |-> "ok", val |-> 0]

\* all sequences of n components over Items
RECURSIVE SeqsOf(_)
SeqsOf(n) ==
    IF n = 0 THEN {<<>>}
    ELSE {Append(q, x) : q \in SeqsOf(n - 1), x \in Items}

InitStates ==
    {[kind |-> "Vec", data |-> q] : q \in UNION {SeqsOf(n) : n \in 0..MaxLen}}
    \cup {[kind |-> "Scalar", data |-> q] : q \in SeqsOf(1)}
    \cup {[kind |-> "Tuple", data |-> q] :
             q \in UNION {SeqsOf(n) : n \in {a \in TupleArities : a <= MaxLen}}}
    \cup {[kind |-> "Tuple", data |-> Cycle(b, n)] : b \in Samples, n \in TupleArities}

Init ==
    /\ \E s \in InitStates : kind = s.kind /\ data = s.data
    /\ res = NoRes
    /\ nmut = 0
    /\ iters = [id \in IterIds |-> NewIter]
    /\ ops = EmptyMap
    /\ conv = [input |-> EmptyMap, out |-> "none"]

\* a panic aborts the program
Running == res.out # "panic" /\ conv.out # "panic"

\* &mut self needs that no iterator borrows the state
NoBorrow == \A id \in IterIds : ~iters[id].live

CallDof ==
    /\ Running
    /\ res' = [NoRes EXCEPT !.op = "dof", !.val = Dof(kind, data)]
    /\ UNCHANGED <<kind, data, nmut, iters, ops, conv>>

CallGet(index) ==
    /\ Running
    /\ LET g == Get(kind, data, index)
       IN  res' = [NoRes EXCEPT !.op = "get", !.idx = index, !.out = g.out,
                                !.val = g.val]
    /\ UNCHANGED <<kind, data, nmut, iters, ops, conv>>

\* *state.get_mut(index) = item
CallGetMut(index, item) ==
    /\ Running /\ NoBorrow /\ nmut < MaxMut
    /\ LET g == GetMut(kind, data, index)
       IN  /\ res' = [NoRes EXCEPT !.op = "get_mut", !.idx = index,
                                   !.item = item, !.out = g.out]
           /\ data' = IF g.out = "ok" THEN [data EXCEPT ![g.val] = item] ELSE data
    /\ nmut' = nmut + 1
    /\ UNCHANGED <<kind, iters, ops, conv>>

CallInsert(index, item) ==
    /\ Running /\ NoBorrow /\ nmut < MaxMut
    /\ LET r == Insert(kind, data, index, item)
       IN  /\ res' = [NoRes EXCEPT !.op = "insert", !.idx = index,
                                   !.item = item, !.out = r.out]
           /\ data' = r.data
    /\ nmut' = nmut + 1
    /\ UNCHANGED <<kind, iters, ops, conv>>

CallSetZero ==
    /\ Running /\ NoBorrow /\ nmut < MaxMut
    /\ LET r == SetZero(kind, data)
       IN  /\ res' = [NoRes EXCEPT !.op = "set_zero", !.out = r.out]
           /\ data' = r.data
    /\ nmut' = nmut + 1
    /\ UNCHANGED <<kind, iters, ops, conv>>

CallPnorm(n) ==
    /\ Running
    /\ LET r == Pnorm(kind, data, n)
       IN  res' = [NoRes EXCEPT !.op = "pnorm", !.norm = n, !.out = r.out,
                                !.val = r.val]
    /\ UNCHANGED <<kind, data, nmut, iters, ops, conv>>

\* ode_iter(): a fresh iterator at index 0 borrowing the state
OdeIter(id) ==
    /\ Running
    /\ ~iters[id].live
    /\ iters' = [iters EXCEPT ![id] = [NewIter EXCEPT !.live = TRUE]]
    /\ UNCHANGED <<kind, data, res, nmut, ops, conv>>

IterNext(id) ==
    /\ Running
    /\ iters[id].live
    /\ LET it == iters[id]
           nx == IterNextAt(kind, data, it.index)
       IN  /\ iters' = [iters EXCEPT ![id] =
                 [it EXCEPT !.index = nx.index,
                            !.yielded = IF nx.out = "some"
                                        THEN Append(it.yielded, nx.val)
                                        ELSE it.yielded,
                            !.last = nx.out]]
           /\ res' = IF nx.out = "panic"
                     THEN [NoRes EXCEPT !.op = "next", !.idx = it.index,
                                        !.out = "panic"]
                     ELSE res
    /\ UNCHANGED <<kind, data, nmut, ops, conv>>

\* the iterator goes out of scope
IterDrop(id) ==
    /\ Running
    /\ iters[id].live
    /\ iters' = [iters EXCEPT ![id] = NewIter]
    /\ UNCHANGED <<kind, data, res, nmut, ops, conv>>

MapInsert(name, opt) ==
    /\ Running
    /\ name \in DOMAIN ops \/ Cardinality(DOMAIN ops) < MaxEntries
    /\ ops' = MapPut(ops, name, opt)
    /\ UNCHANGED <<kind, data, res, nmut, iters, conv>>

MapRemove(name) ==
    /\ Running
    /\ name \in DOMAIN ops
    /\ ops' = MapDel(ops, name)
    /\ UNCHANGED <<kind, data, res, nmut, iters, conv>>

\* Demo::from(ops)
ConvertFrom ==
    /\ Running
    /\ conv' = [input |-> ops, out |-> FromOdeOptionMap(ops)]
    /\ UNCHANGED <<kind, data, res, nmut, iters, ops>>

\* indexed access and mutation of one state
Next ==
    \/ CallDof
    \/ \E i \in 0..MaxIdx : CallGet(i)
    \/ \E i \in 0..MaxIdx, v \in Vals : CallGetMut(i, v)
    \/ \E i \in 0..MaxIdx, v \in Vals : CallInsert(i, v)
    \/ CallSetZero

Spec == Init /\ [][Next]_vars

\* norms of one state, before and after set_zero
NextNorm ==
    \/ CallSetZero
    \/ \E n \in PNorm : CallPnorm(n)

SpecNorm == Init /\ [][NextNorm]_vars

\* iterators over one state; set_zero runs when no iterator borrows the state
NextIter ==
    \/ \E id \in IterIds : OdeIter(id)
    \/ \E id \in IterIds : IterNext(id)
    \/ \E id \in IterIds : IterDrop(id)
    \/ CallSetZero

SpecIter == Init /\ [][NextIter]_vars

\* building an option map and converting it to the option set Demo
NextOpts ==
    \/ \E name \in OptionNames, opt \in OdeOption : MapInsert(name, opt)
    \/ \E name \in OptionNames : MapRemove(name)
    \/ ConvertFrom

\* the option model does not read the ODE state: one initial state stands for all
InitOpts == Init /\ kind = "Vec" /\ data = <<>>

SpecOpts == InitOpts /\ [][NextOpts]_vars

(* ------------------------------ claims --------------------------------- *)
AccessOps == {"get", "get_mut", "insert"}

IsPositive(p) == ~IsZeroUSize(p)

\* the components of the state in index order 0..dof-1
Components == [i \in 0..(Dof(kind, data) - 1) |-> data[i + 1]]

\* C1: every live iterator has yielded the components 0..index-1 in index
\* order, never more than dof() items, returns None only after dof() items,
\* never panics, each iterator on its own however the calls interleave; and
\* dof() keeps its value from one step to the next.
C1_IterInv ==
    \A id \in IterIds :
        iters[id].live =>
            LET it == iters[id]
            IN  /\ Len(it.yielded) = it.index
                /\ it.index <= Dof(kind, data)
                /\ \A j \in 0..(it.index - 1) : it.yielded[j + 1] = data[j + 1]
                /\ it.last # "panic"
                /\ it.last = "none" => Len(it.yielded) = Dof(kind, data)

C1_IterYieldsDofItemsInOrder ==
    /\ []C1_IterInv
    /\ [][Dof(kind', data') = Dof(kind, data)]_vars

C1_Witness ==
    /\ kind = "Tuple" /\ Len(data) = 9 /\ data[1] # data[2]
    /\ iters["it1"].last = "none" /\ Len(iters["it1"].yielded) = 9
    /\ iters["it2"].live /\ iters["it2"].index = 4

\* |x|^p as a real number: exact when p < 2^31, and for p >= 2^31 the value
\* x when x <= 1 and beyond every f64 (inf) when x >= 2
ExactPow(x, p) ==
    IF p.hi = 0 /\ p.b31 = 0 THEN [inf |-> FALSE, val |-> Powi(x, p.lo)]
    ELSE IF x <= 1 THEN [inf |-> FALSE, val |-> x]
    ELSE [inf |-> TRUE, val |-> 0]

RECURSIVE SumAbsPow(_, _, _)
\* the sum over the components i..Len(d)-1 of |component|^p
SumAbsPow(d, i, p) ==
    IF i >= Len(d) THEN [inf |-> FALSE, val |-> 0]
    ELSE LET a == ExactPow(Abs(d[i + 1]), p)
             r == SumAbsPow(d, i + 1, p)
         IN  IF a.inf \/ r.inf THEN [inf |-> TRUE, val |-> 0]
             ELSE [inf |-> FALSE, val |-> a.val + r.val]

\* C2: after set_zero() every component is zero and dof() is what it was, and
\* pnorm(P(p)) of the zeroed state is 0 for every positive p.  (set_zero is
\* the only mutation of SpecNorm: nmut > 0 says it has been called.)
C2_ZeroedNormIsZero ==
    nmut > 0 =>
        /\ \A i \in DOMAIN Components : Components[i] = Zero
        /\ (res.op = "pnorm" /\ res.norm.tag = "P" /\ IsPositive(res.norm.p))
               => (res.out = "ok" /\ res.val = Zero)

\* C3: pnorm(P(p)) for a positive p is the sum of |component|^p over the
\* components, without a root: 25 on (3, 4) with p = 2, 0 on an empty state.
C3_PnormSumOfPowers ==
    (res.op = "pnorm" /\ res.norm.tag = "P" /\ IsPositive(res.norm.p)) =>
        /\ res.out = "ok"
        /\ [inf |-> FALSE, val |-> res.val] = SumAbsPow(data, 0, res.norm.p)

\* C4: pnorm(InfPos) is the largest |component|: 0 on an empty state, 4 on
\* (-3, 4, -1), and otherwise |get(i)| for some i and >= |get(j)| for all j.
C4_InfPosIsMaxAbs ==
    (res.op = "pnorm" /\ res.norm.tag = "InfPos") =>
        /\ res.out = "ok"
        /\ Dof(kind, data) = 0 => res.val = Zero
        /\ Dof(kind, data) > 0 =>
               /\ \E i \in DOMAIN Components : res.val = Abs(Components[i])
               /\ \A j \in DOMAIN Components : res.val >= Abs(Components[j])
        /\ data = <<-3, 4, -1>> => res.val = 4

C4_Witness ==
    /\ res.op = "pnorm" /\ res.norm.tag = "InfPos"
    /\ kind = "Tuple" /\ data = <<-3, 4, -1>> /\ res.val = 4

\* C5: pnorm(InfNeg) is the smallest |component| of a state with dof() > 0:
\* 1 on (-3, 4, -1).
C5_InfNegIsMinAbs ==
    (res.op = "pnorm" /\ res.norm.tag = "InfNeg" /\ Dof(kind, data) > 0) =>
        /\ res.out = "ok"
        /\ \E i \in DOMAIN Components : res.val = Abs(Components[i])
        /\ \A j \in DOMAIN Components : res.val <= Abs(Components[j])
        /\ data = <<-3, 4, -1>> => res.val = 1

\* C6: on a tuple, get, get_mut and insert at an index >= the arity panic and
\* leave every component as it was.
C6_TupleOutOfRangePanics ==
    [][(kind = "Tuple" /\ res'.op \in AccessOps /\ res'.idx >= Dof(kind, data))
           => (res'.out = "panic" /\ data' = data /\ kind' = kind)]_vars

C6_Witness ==
    /\ kind = "Tuple" /\ Len(data) = 3
    /\ res.op = "get" /\ res.idx = 5 /\ res.out = "panic"

\* C7: on a scalar, get, get_mut and insert at an index other than 0 panic.
C7_ScalarIndexValidated ==
    (kind = "Scalar" /\ res.op \in AccessOps /\ res.idx # 0) => res.out = "panic"

\* C8: pnorm(P(0)) is rejected with an error and returns no number.
C8_ZeroExponentRejected ==
    (res.op = "pnorm" /\ res.norm.tag = "P" /\ IsZeroUSize(res.norm.p))
        => res.out = "error"

\* every entry is stored under the canonical name of its variant
WellTyped(m) == \A n \in DOMAIN m : OptionName(m[n].kind) = n

\* C9: converting a map with an entry stored under another variant's name
\* returns a typed error, without a panic; converting a map whose entries all
\* match their names succeeds.
C9_ConversionTypedError ==
    conv.out # "none" =>
        IF WellTyped(conv.input) THEN conv.out = "ok" ELSE conv.out = "typed_error"

\* C10: an insert at an index in range makes that component the inserted
\* value and keeps every other component and dof(); get at an index in range
\* returns the component there.
C10_InsertThenGet ==
    /\ [][(res'.op = "insert" /\ res'.idx < Dof(kind, data)) =>
             /\ res'.out = "ok"
             /\ Dof(kind', data') = Dof(kind, data)
             /\ Len(data') = Len(data)
             /\ data'[res'.idx + 1] = res'.item
             /\ \A j \in 1..Len(data) : j # res'.idx + 1 => data'[j] = data[j]]_vars
    /\ [](res.op = "get" /\ res.idx < Dof(kind, data)
             => res.out = "ok" /\ res.val = data[res.idx + 1])

C10_Witness ==
    /\ kind = "Tuple" /\ Len(data) = 9 /\ nmut = 2 /\ data[2] # 0
    /\ res.op = "get" /\ res.idx = 8 /\ res.out = "ok" /\ res.val = 0

====
